---- MODULE Spec2Model ----
(***************************************************************************)
(* Crypto dashboard (src/src/App.js): the App component's state, its       *)
(* polling timer, the three fetchers (spot price, candle history, coin     *)
(* search) with their requests in flight, and one CoinPanel per tracked    *)
(* coin.  Every handler and every promise completion is one action.        *)
(***************************************************************************)
EXTENDS Integers, Sequences, FiniteSets, TLC

\* ------------------------------------------------------------- constants
\* const maxDataPoints = 120  (App.js:8)
maxDataPoints == 120

\* ---------------------------------------------------------------- bounds
\* Events (handler runs, timer firings and fetch completions) in one
\* behaviour of Spec.
MaxSteps == 4
\* Events in one behaviour of SpecStore.
MaxStoreSteps == 3
\* Polling rounds behind the state SpecStore starts in.
WarmUp == 120
\* Events other than timer firings in one behaviour of SpecLive.
MaxLiveSteps == 3
\* Timer firings in one behaviour of SpecLive.
MaxClock == 1

\* ------------------------------------------------------------ data model
Coin(id, name, ticker) == [id |-> id, name |-> name, ticker |-> ticker]

defaultCoins ==
    << Coin("bitcoin", "Bitcoin", "BTC"),
       Coin("ethereum", "Ethereum", "ETH"),
       Coin("solana", "Solana", "SOL") >>

\* A JavaScript number, and null.
Num(n) == <<"num", n>>
Null == <<"null">>

\* String.prototype.toUpperCase on the symbols the search endpoint returns.
toUpperCase(s) ==
    CASE s = "btc"  -> "BTC"
      [] s = "eth"  -> "ETH"
      [] s = "sol"  -> "SOL"
      [] s = "doge" -> "DOGE"
      [] s = "ada"  -> "ADA"
      [] s = "xrp"  -> "XRP"
      [] s = "ltc"  -> "LTC"
      [] OTHER      -> s

\* parseFloat on the amount strings of the spot-price endpoint.
parseFloat(s) ==
    CASE s = "100" -> Num(100)
      [] s = "250" -> Num(250)
      [] OTHER     -> <<"NaN">>

\* slice(0, n) written for slice(-n): keeps the oldest n elements.
SliceLastKeepsOldest(s, n) ==
    IF Len(s) <= n THEN s ELSE SubSeq(s, 1, n)

\* Array.prototype.slice(-n): the last n elements.
SliceLast(s, n) ==
    IF Len(s) <= n THEN s ELSE SubSeq(s, Len(s) - n + 1, Len(s))

\* The results passed on whole, slice(0, n) left out.
SliceFirstLeftOut(s, n) == s

\* Array.prototype.slice(0, n): the first n elements.
SliceFirst(s, n) ==
    IF Len(s) <= n THEN s ELSE SubSeq(s, 1, n)

\* Array.prototype.find(c => c.id === id) !== undefined
HasId(cs, id) == \E i \in 1..Len(cs) : cs[i].id = id

\* ------------------------------------------------- what the servers send
\* A settled fetch: <<"reject">> is a transport failure or a body that
\* res.json() cannot parse; <<"json", ...>> is the parsed body.
Reject == <<"reject">>

\* Spot price: a body without data.amount, or data.amount as a string.
PriceResponses ==
    { Reject, <<"json", "noAmount">>, <<"json", "amount", "100">>,
      <<"json", "amount", "250">> }

\* Candles are [ time, low, high, open, close, volume ].
Candle(time, close) == <<time, 1, 2, 1, close, 10>>

HistoryArrays ==
    { <<>>,
      << Candle(200, 18), Candle(100, 14) >>,
      << Candle(300, 11), Candle(100, 12), Candle(200, 13), Candle(100, 14) >> }

\* Candle history: an error object (not an array), or an array of candles.
HistoryResponses ==
    { Reject, <<"json", "object">> } \cup { <<"json", "array", a>> : a \in HistoryArrays }

\* What the search endpoint knows: { id, name, symbol }.
Hit(id, name, symbol) == [id |-> id, name |-> name, symbol |-> symbol]

hitDoge == Hit("dogecoin", "Dogecoin", "doge")
hitBtc  == Hit("bitcoin", "Bitcoin", "btc")
hitEth  == Hit("ethereum", "Ethereum", "eth")
hitSol  == Hit("solana", "Solana", "sol")
hitAda  == Hit("cardano", "Cardano", "ada")
hitXrp  == Hit("ripple", "XRP", "xrp")
hitLtc  == Hit("litecoin", "Litecoin", "ltc")

SearchHits ==
    { <<>>,
      << hitDoge >>,
      << hitDoge, hitBtc, hitEth, hitSol, hitAda >>,
      << hitBtc, hitDoge, hitEth, hitSol, hitAda, hitXrp, hitLtc >> }

\* Coin search: a body without a coins array, or one with it.
SearchResponses ==
    { Reject, <<"json", "noCoins">> } \cup { <<"json", "coins", h>> : h \in SearchHits }

\* The texts typed into the search box.
Queries == { "d", "do" }

\* ------------------------------------------------------------------ state
VARIABLES
    coins,        \* useState(defaultCoins): the Tracked Coin Set
    activeCoin,   \* useState(defaultCoins[0].id)
    priceData,    \* useState({}): coin id -> { labels, data, error }
    searchQuery,  \* useState('')
    suggestions,  \* useState([])
    timers,       \* the armed setInterval timers: handle and the coins the callback closes over
    mounted,      \* the App component is mounted
    priceReqs,    \* spot-price fetches in flight
    searchReqs,   \* search fetches in flight
    histReqs,     \* candle fetches in flight (the coin of the panel that issued each)
    panels,       \* coin id -> CoinPanel state { ohlcData, ohlcLoading, ohlcAvailable }
    clock,        \* wall-clock reading, in polling periods (source of time labels)
    steps,        \* events left to this behaviour
    last          \* the last event, for stating what an event did

vars == << coins, activeCoin, priceData, searchQuery, suggestions, timers,
           mounted, priceReqs, searchReqs, histReqs, panels, clock, steps, last >>

\* ----------------------------------------------------- Time-Series Store
EmptyStore == [k \in {} |-> k]

\* prev[coinId] || { labels: [], data: [] }
PrevData(prev, coinId) ==
    IF coinId \in DOMAIN prev THEN prev[coinId] ELSE [labels |-> <<>>, data |-> <<>>]

\* updatePriceData with the truncation of the data array left out.
updatePriceDataDataUncut(prev, coinId, price, error, timeLabel) ==
    LET prevData  == PrevData(prev, coinId)
        newLabels == SliceLast(Append(prevData.labels, timeLabel), maxDataPoints)
        newData   == IF error
                        THEN Append(prevData.data, Null)
                        ELSE Append(prevData.data, price)
    IN  [k \in DOMAIN prev \cup {coinId} |->
            IF k = coinId
               THEN [labels |-> newLabels, data |-> newData, error |-> error]
               ELSE prev[k]]

\* updatePriceData(coinId, price, error) applied to the store prev, with
\* timeLabel the reading of new Date().toLocaleTimeString().
updatePriceData(prev, coinId, price, error, timeLabel) ==
    LET prevData  == PrevData(prev, coinId)
        newLabels == SliceLast(Append(prevData.labels, timeLabel), maxDataPoints)
        newData   == IF error
                        THEN SliceLast(Append(prevData.data, Null), maxDataPoints)
                        ELSE SliceLast(Append(prevData.data, price), maxDataPoints)
    IN  [k \in DOMAIN prev \cup {coinId} |->
            IF k = coinId
               THEN [labels |-> newLabels, data |-> newData, error |-> error]
               ELSE prev[k]]

\* fetchPrice whose handlers record a failure only for a coin without a
\* series: a failure does not overwrite the value a completion wrote before.
fetchPriceSettledKeepsValue(prev, coin, resp, timeLabel) ==
    IF resp # Reject /\ resp[2] = "amount"
       THEN updatePriceData(prev, coin.id, parseFloat(resp[3]), FALSE, timeLabel)
       ELSE IF coin.id \in DOMAIN prev
               THEN prev
               ELSE updatePriceData(prev, coin.id, Null, TRUE, timeLabel)

\* fetchPrice whose handlers leave the error argument out when they record
\* a null.
fetchPriceSettledNoFlag(prev, coin, resp, timeLabel) ==
    IF resp = Reject
       THEN updatePriceData(prev, coin.id, Null, FALSE, timeLabel)
       ELSE IF resp[2] = "amount"
               THEN updatePriceData(prev, coin.id, parseFloat(resp[3]), FALSE, timeLabel)
               ELSE updatePriceData(prev, coin.id, Null, FALSE, timeLabel)

\* fetchPrice's handlers: the store after the response resp for coin settles.
fetchPriceSettled(prev, coin, resp, timeLabel) ==
    IF resp = Reject
       THEN \* .catch
            updatePriceData(prev, coin.id, Null, TRUE, timeLabel)
       ELSE IF resp[2] = "amount"
               THEN updatePriceData(prev, coin.id, parseFloat(resp[3]), FALSE, timeLabel)
               ELSE updatePriceData(prev, coin.id, Null, TRUE, timeLabel)

\* coins.forEach(coin => fetchPrice(coin)): one fetch per coin of cs.
PriceFetches(cs, at) == { [coin |-> cs[i], issued |-> at] : i \in 1..Len(cs) }

\* ------------------------------------------------------------- CoinPanel
\* data.sort((a, b) => a[0] - b[0]): stable, ascending by time.
RECURSIVE InsertByTime(_, _)
InsertByTime(sorted, c) ==
    IF sorted = <<>> THEN << c >>
    ELSE IF sorted[Len(sorted)][1] - c[1] <= 0
            THEN Append(sorted, c)
            ELSE Append(InsertByTime(SubSeq(sorted, 1, Len(sorted) - 1), c),
                        sorted[Len(sorted)])

\* The candles stored as they came, the sort left out.
SortByTimeLeftOut(data) == data

RECURSIVE SortByTime(_)
SortByTime(data) ==
    IF data = <<>> THEN <<>>
    ELSE InsertByTime(SortByTime(SubSeq(data, 1, Len(data) - 1)), data[Len(data)])

\* useState([]), useState(true), useState(true), then the effect's
\* setOhlcLoading(true).
NewPanel == [ohlcData |-> <<>>, ohlcLoading |-> TRUE, ohlcAvailable |-> TRUE]

\* The candle fetch's handlers with setOhlcLoading(false) missing from the
\* .catch handler.
historySettledCatchKeepsLoading(panel, resp) ==
    IF resp = Reject
       THEN [panel EXCEPT !.ohlcAvailable = FALSE]
       ELSE IF resp[2] = "array" /\ Len(resp[3]) > 0
               THEN [ohlcData |-> SortByTime(resp[3]), ohlcAvailable |-> TRUE,
                     ohlcLoading |-> FALSE]
               ELSE [panel EXCEPT !.ohlcAvailable = FALSE, !.ohlcLoading = FALSE]

\* The candle fetch's handlers: the panel after the response settles.
historySettled(panel, resp) ==
    IF resp = Reject
       THEN [panel EXCEPT !.ohlcAvailable = FALSE, !.ohlcLoading = FALSE]
       ELSE IF resp[2] = "array" /\ Len(resp[3]) > 0
               THEN [ohlcData |-> SortByTime(resp[3]), ohlcAvailable |-> TRUE,
                     ohlcLoading |-> FALSE]
               ELSE [panel EXCEPT !.ohlcAvailable = FALSE, !.ohlcLoading = FALSE]

\* ---------------------------------------------------------------- search
NotFound == [notFound |-> TRUE]

\* data.coins.map(coin => ({ id, name, ticker: coin.symbol.toUpperCase() }))
MapHits(hits) ==
    [i \in 1..Len(hits) |->
        Coin(hits[i].id, hits[i].name, toUpperCase(hits[i].symbol))]

\* The search fetch's handlers: the suggestion list the response sets.
searchSettled(resp) ==
    IF resp = Reject
       THEN << NotFound >>
       ELSE IF resp[2] = "coins" /\ Len(resp[3]) > 0
               THEN SliceFirst(MapHits(resp[3]), 5)
               ELSE << NotFound >>

\* ------------------------------------------------------------ the effects
\* setInterval(() => coins.forEach(...), updateInterval): an armed timer,
\* its handle and the coins of the render its callback closes over.
SetInterval(cs, handle) == [handle |-> handle, coins |-> cs]

\* The polling effect with an empty dependency list: it runs at mount only,
\* so the timer armed then stays, closing over the coins of the first render.
pollingEffectMountOnly(ts, prevCoins, cs, n) == ts

\* The polling effect without a dependency list: it runs at every render.
pollingEffectNoDeps(ts, prevCoins, cs, n) == { SetInterval(cs, n) }

\* The polling effect without its cleanup: the old timer stays armed.
pollingEffectNoCleanup(ts, prevCoins, cs, n) ==
    IF cs # prevCoins THEN ts \cup { SetInterval(cs, n) } ELSE ts

\* useEffect(..., [coins]) at a render with coins cs after one with
\* prevCoins: when coins changed, the cleanup's clearInterval disarms the
\* timer the previous run armed and setInterval arms a new one, named by
\* the event n; otherwise the effect does not run.
pollingEffect(ts, prevCoins, cs, n) ==
    IF cs # prevCoins THEN { SetInterval(cs, n) } ELSE ts

\* The panels rendered for cs: those already mounted keep their state, a
\* new key mounts a new CoinPanel.
RenderPanels(ps, cs) ==
    [id \in { cs[i].id : i \in 1..Len(cs) } |->
        IF id \in DOMAIN ps THEN ps[id] ELSE NewPanel]

\* The history effect without a dependency list: every panel rendered for
\* cs issues a candle fetch at every render.
MountFetchesEveryRender(ps, cs) == { cs[i] : i \in 1..Len(cs) }

\* The candle fetches the newly mounted panels of cs issue.
MountFetches(ps, cs) == { cs[i] : i \in { j \in 1..Len(cs) : cs[j].id \notin DOMAIN ps } }

\* ------------------------------------------------------------------- Init
\* The state after the first render and its effects: the mount effect and
\* each panel's history effect have issued their fetches, the timer is
\* armed, the search effect saw an empty query.
InitApp ==
    /\ coins = defaultCoins
    /\ activeCoin = defaultCoins[1].id
    /\ searchQuery = ""
    /\ suggestions = <<>>
    /\ timers = { SetInterval(defaultCoins, 0) }
    /\ mounted = TRUE
    /\ searchReqs = {}
    /\ histReqs = MountFetches(EmptyStore, defaultCoins)
    /\ panels = RenderPanels(EmptyStore, defaultCoins)
    /\ last = <<"Mount">>

Init ==
    /\ InitApp
    /\ steps = MaxSteps
    /\ priceData = EmptyStore
    /\ clock = 0
    /\ priceReqs = PriceFetches(defaultCoins, 0)

\* ---------------------------------------------------------------- actions
\* Every event counts against the bound on the length of a behaviour.
Step ==
    /\ steps > 0
    /\ steps' = steps - 1

\* The callback armed with setTimeout in place of setInterval: the timer
\* is spent by its first firing.
FireOnce(t) ==
    /\ clock' = clock + 1
    /\ priceReqs' = priceReqs \cup PriceFetches(t.coins, clock + 1)
    /\ timers' = timers \ {t}
    /\ last' = <<"Tick">>
    /\ UNCHANGED << coins, activeCoin, priceData, searchQuery, suggestions,
                    mounted, searchReqs, histReqs, panels >>

\* The callback of the armed timer t: coins.forEach(coin => fetchPrice(coin))
\* over the coins it closes over, one polling period later.
Fire(t) ==
    /\ clock' = clock + 1
    /\ priceReqs' = priceReqs \cup PriceFetches(t.coins, clock + 1)
    /\ last' = <<"Tick">>
    /\ UNCHANGED << coins, activeCoin, priceData, searchQuery, suggestions,
                    timers, mounted, searchReqs, histReqs, panels >>

\* An armed timer fires.
Tick ==
    /\ Step
    /\ \E t \in timers : Fire(t)

\* A spot-price fetch settles with resp.
PriceDone(r, resp) ==
    /\ Step
    /\ r \in priceReqs
    /\ priceReqs' = priceReqs \ {r}
    /\ priceData' = fetchPriceSettled(priceData, r.coin, resp, clock)
    /\ last' = <<"PriceDone", r.coin.id, resp, r.issued>>
    /\ UNCHANGED << coins, activeCoin, searchQuery, suggestions, timers,
                    mounted, searchReqs, histReqs, panels, clock >>

\* A candle fetch settles with resp.
HistoryDone(c, resp) ==
    /\ Step
    /\ c \in histReqs
    /\ histReqs' = histReqs \ {c}
    /\ panels' = [panels EXCEPT ![c.id] = historySettled(panels[c.id], resp)]
    /\ last' = <<"HistoryDone", c.id, resp>>
    /\ UNCHANGED << coins, activeCoin, priceData, searchQuery, suggestions,
                    timers, mounted, priceReqs, searchReqs, clock >>

\* The search effect without setSuggestions([]) in its early return: the
\* list stays as it was when the query is emptied.
searchEffectSuggestionsKept(q, current) == current

\* The search effect for the query q: the suggestion list it leaves
\* (setSuggestions([]) when q is empty).
searchEffectSuggestions(q, current) ==
    IF q = "" THEN <<>> ELSE current

\* The search effect with a cleanup that aborts the fetch of the previous
\* query: at most the fetch for the current query is in flight.
searchEffectFetchesAborting(q, reqs, n) ==
    IF q = "" THEN {} ELSE { [query |-> q, issued |-> n] }

\* The search effect without its early return: it fetches for any query.
searchEffectFetchesAlways(q, reqs, n) ==
    reqs \cup { [query |-> q, issued |-> n] }

\* The search effect for the query q: the fetches in flight after it (none
\* is issued when q is empty; otherwise one, named by the event n).
searchEffectFetches(q, reqs, n) ==
    IF q = "" THEN reqs ELSE reqs \cup { [query |-> q, issued |-> n] }

\* onChange of the search box, then the search effect.
ChangeQuery(q) ==
    /\ Step
    /\ mounted
    /\ q # searchQuery
    /\ searchQuery' = q
    /\ suggestions' = searchEffectSuggestions(q, suggestions)
    /\ searchReqs' = searchEffectFetches(q, searchReqs, steps)
    /\ timers' = pollingEffect(timers, coins, coins, steps)
    /\ last' = <<"ChangeQuery">>
    /\ UNCHANGED << coins, activeCoin, priceData, mounted, priceReqs,
                    histReqs, panels, clock >>

\* A search fetch settles with resp.
SearchDone(r, resp) ==
    /\ Step
    /\ r \in searchReqs
    /\ searchReqs' = searchReqs \ {r}
    /\ suggestions' = searchSettled(resp)
    /\ last' = <<"SearchDone", r.query, resp>>
    /\ UNCHANGED << coins, activeCoin, priceData, searchQuery, timers,
                    mounted, priceReqs, histReqs, panels, clock >>

\* addCoin without its coins.find test: always appends.
addCoinCoinsUnguarded(cs, coin) == Append(cs, coin)

\* addCoin with its test inverted: appends only a coin already tracked.
addCoinCoinsInverted(cs, coin) ==
    IF HasId(cs, coin.id) THEN Append(cs, coin) ELSE cs

\* addCoin putting the new coin in front: [coin, ...prev].
addCoinCoinsInFront(cs, coin) ==
    IF ~HasId(cs, coin.id) THEN << coin >> \o cs ELSE cs

\* addCoin's setCoins: the Tracked Coin Set after addCoin(coin).
addCoinCoins(cs, coin) ==
    IF ~HasId(cs, coin.id) THEN Append(cs, coin) ELSE cs

\* onClick of a suggestion: addCoin(coin), then the render and its effects
\* (the polling effect when coins changed, the new panel's history effect,
\* the search effect when the query changed).
AddCoin(coin) ==
    /\ Step
    /\ mounted
    /\ \E i \in 1..Len(suggestions) :
          /\ "notFound" \notin DOMAIN suggestions[i]
          /\ suggestions[i] = coin
    /\ coins' = addCoinCoins(coins, coin)
    /\ activeCoin' = coin.id
    /\ searchQuery' = ""
    /\ suggestions' = <<>>
    /\ timers' = pollingEffect(timers, coins, coins', steps)
    /\ panels' = RenderPanels(panels, coins')
    /\ histReqs' = histReqs \cup MountFetches(panels, coins')
    /\ last' = <<"AddCoin", coin.id, HasId(coins, coin.id)>>
    /\ UNCHANGED << priceData, mounted, priceReqs, searchReqs, clock >>

\* onClick of a coin button: setActiveCoin(coin.id), then the render and
\* its effects (coins and the query are those of the render before).
SelectCoin(i) ==
    /\ Step
    /\ mounted
    /\ i \in 1..Len(coins)
    /\ activeCoin' = coins[i].id
    /\ timers' = pollingEffect(timers, coins, coins, steps)
    /\ panels' = RenderPanels(panels, coins)
    /\ histReqs' = histReqs \cup MountFetches(panels, coins)
    /\ last' = <<"SelectCoin">>
    /\ UNCHANGED << coins, priceData, searchQuery, suggestions,
                    mounted, priceReqs, searchReqs, clock >>

\* The view unmounts: the polling effect's cleanup, clearInterval.  No
\* fetch is cancelled and no handler tests for the unmount: a response that
\* settles later still runs its setState calls as written.
Unmount ==
    /\ Step
    /\ mounted
    /\ mounted' = FALSE
    /\ timers' = {}
    /\ last' = <<"Unmount">>
    /\ UNCHANGED << coins, activeCoin, priceData, searchQuery, suggestions,
                    priceReqs, searchReqs, histReqs, panels, clock >>

Next ==
    \/ Tick
    \/ \E r \in priceReqs, resp \in PriceResponses : PriceDone(r, resp)
    \/ \E c \in histReqs, resp \in HistoryResponses : HistoryDone(c, resp)
    \/ \E q \in Queries \cup {""} : ChangeQuery(q)
    \/ \E r \in searchReqs, resp \in SearchResponses : SearchDone(r, resp)
    \/ \E i \in 1..Len(suggestions) : AddCoin(suggestions[i])
    \/ \E i \in 1..Len(coins) : SelectCoin(i)
    \/ Unmount

Spec == Init /\ [][Next]_vars

\* ------------------------------------------ the store at its window bound
\* The response to the spot-price fetch of polling round k in the past of
\* SpecStore's first state: mostly prices, now and then a failure.
PastResponse(k) ==
    IF k % 7 = 3 THEN Reject
    ELSE IF k % 2 = 0 THEN <<"json", "amount", "100">>
    ELSE <<"json", "amount", "250">>

\* The sample that the fetch of round k left: the response settled within
\* its own polling period, so its time label is k.
PastSample(coin, k) == fetchPriceSettled(EmptyStore, coin, PastResponse(k), k)[coin.id]

\* The series of coin after its fetches of rounds 0 .. n-1 settled in order:
\* the samples of the last maxDataPoints of these rounds.
PolledSeries(coin, n) ==
    LET m == IF n <= maxDataPoints THEN n ELSE maxDataPoints
    IN  [labels |-> [i \in 1..m |-> PastSample(coin, n - m + i - 1).labels[1]],
         data   |-> [i \in 1..m |-> PastSample(coin, n - m + i - 1).data[1]],
         error  |-> PastSample(coin, n - 1).error]

\* The store after, for each i, the fetches of rounds 0 .. n[i]-1 for cs[i]
\* settled.
Polled(cs, n) ==
    [id \in { cs[i].id : i \in { j \in 1..Len(cs) : n[j] > 0 } } |->
        LET i == CHOOSE j \in 1..Len(cs) : cs[j].id = id
        IN  PolledSeries(cs[i], n[i])]

\* The fetches of rounds from .. to for coin, still in flight.
Pending(coin, from, to) ==
    { [coin |-> coin, issued |-> k] : k \in { j \in from..to : j >= 0 } }

\* A state of the program WarmUp polling periods after the mount: bitcoin
\* has one fetch in flight, ethereum two and solana three, every earlier
\* fetch has settled.  With WarmUp = 120 the bitcoin series is full, the
\* ethereum series one short of full.
InitStore ==
    /\ InitApp
    /\ steps = MaxStoreSteps
    /\ clock = WarmUp
    /\ priceData = Polled(defaultCoins, << WarmUp, WarmUp - 1, WarmUp - 2 >>)
    /\ priceReqs = Pending(defaultCoins[1], WarmUp, WarmUp)
                   \cup Pending(defaultCoins[2], WarmUp - 1, WarmUp)
                   \cup Pending(defaultCoins[3], WarmUp - 2, WarmUp)

SpecStore == InitStore /\ [][Next]_vars

\* ------------------------------------------------------------- properties
\* A step that delivers a spot-price response, and the coin it is for.
PriceDoneStep == last'[1] = "PriceDone" /\ priceReqs' # priceReqs
PriceDoneCoin == last'[2]

\* C1: in every reachable state every coin's Time Series Entry has as many
\* labels as values, and at most maxDataPoints (120) of them.
C1_SeriesPairedAndBounded ==
    \A id \in DOMAIN priceData :
        /\ Len(priceData[id].labels) = Len(priceData[id].data)
        /\ Len(priceData[id].labels) <= maxDataPoints

\* C1's case: a response was appended to a series that was already full.
C1_Witness ==
    /\ last[1] = "PriceDone"
    /\ Len(priceData[last[2]].labels) = maxDataPoints
    /\ priceData[last[2]].labels[1] > 0

\* C2: a sample appended to a series that holds maxDataPoints entries
\* removes exactly the oldest (label, value) pair and keeps the other pairs
\* in order, followed by the new pair; appended to a shorter series it
\* removes nothing and comes last.
C2_AppendEvictsOldest ==
    [][PriceDoneStep =>
         LET old == PrevData(priceData, PriceDoneCoin)
             new == priceData'[PriceDoneCoin]
             n   == Len(new.labels)
             kept == IF Len(old.labels) >= maxDataPoints
                        THEN [labels |-> Tail(old.labels), data |-> Tail(old.data)]
                        ELSE [labels |-> old.labels, data |-> old.data]
         IN  /\ n = Len(kept.labels) + 1
             /\ Len(new.data) = n
             /\ SubSeq(new.labels, 1, n - 1) = kept.labels
             /\ SubSeq(new.data, 1, n - 1) = kept.data
             /\ new.labels[n] = clock
             /\ new.data[n] \in { Null, Num(100), Num(250) }]_vars

\* C2's cases: the full bitcoin series lost its oldest sample (label 0 of
\* the first state), and the ethereum series, one short of full, kept it.
C2_Witness ==
    /\ Len(priceData["bitcoin"].labels) = maxDataPoints
    /\ priceData["bitcoin"].labels[1] = WarmUp - maxDataPoints + 1
    /\ priceData["bitcoin"].labels[maxDataPoints] >= WarmUp
    /\ Len(priceData["ethereum"].labels) = maxDataPoints
    /\ priceData["ethereum"].labels[1] = WarmUp - maxDataPoints

\* C3: in every reachable state no two members of the Tracked Coin Set
\* share an id.
C3_UniqueIds ==
    \A i, j \in 1..Len(coins) : coins[i].id = coins[j].id => i = j

\* C3's case: addCoin ran and the set holds a fourth coin.
C3_Witness ==
    /\ Len(coins) > Len(defaultCoins)
    /\ last[1] = "AddCoin"
    /\ HasId(coins, last[2])

\* C4: in every reachable state activeCoin is the id of a member of the
\* Tracked Coin Set, also right after addCoin of a coin not tracked before.
C4_ActiveIsTracked == HasId(coins, activeCoin)

\* C4's case: addCoin just appended a new coin and selected it.
C4_Witness ==
    /\ last[1] = "AddCoin"
    /\ last[3] = FALSE
    /\ Len(coins) = Len(defaultCoins) + 1
    /\ coins[Len(coins)].id = last[2]
    /\ activeCoin = last[2]

\* A step that runs addCoin, and the id of its candidate.
AddCoinStep == last'[1] = "AddCoin" /\ steps' # steps
AddCoinId == last'[2]

\* C5: addCoin of a candidate whose id is tracked leaves the Tracked Coin
\* Set as it was, sets activeCoin to the candidate's id and empties the
\* search query and the suggestion list.
C5_AddTrackedCoin ==
    [][AddCoinStep /\ HasId(coins, AddCoinId) =>
         /\ coins' = coins
         /\ activeCoin' = AddCoinId
         /\ searchQuery' = ""
         /\ suggestions' = <<>>]_vars

\* C5's case: addCoin ran for a tracked coin that was not the active one,
\* while a query was typed.
C5_Witness ==
    /\ last[1] = "AddCoin"
    /\ last[3] = TRUE
    /\ last[2] # defaultCoins[1].id
    /\ activeCoin = last[2]
    /\ coins = defaultCoins
    /\ searchQuery = ""
    /\ suggestions = <<>>

\* C6: every spot-price completion appends exactly one entry to its coin's
\* series (the entries before it are the latest of the old series) and
\* leaves every other coin's series as it was; a response without the
\* amount field and a failed request append null and set the error flag.
C6_OneEntryPerCompletion ==
    [][PriceDoneStep =>
         LET id   == PriceDoneCoin
             resp == last'[3]
             old  == PrevData(priceData, id)
             new  == priceData'[id]
             n    == Len(new.data)
         IN  /\ DOMAIN priceData' = DOMAIN priceData \cup {id}
             /\ \A k \in DOMAIN priceData \ {id} : priceData'[k] = priceData[k]
             /\ n >= 1 /\ Len(new.labels) = n
             /\ SubSeq(new.data, 1, n - 1) = SliceLast(old.data, maxDataPoints - 1)
             /\ SubSeq(new.labels, 1, n - 1) = SliceLast(old.labels, maxDataPoints - 1)
             /\ (resp = Reject \/ resp = <<"json", "noAmount">>)
                   => new.data[n] = Null /\ new.error = TRUE]_vars

\* C6's cases: a response without the amount field was recorded as null
\* with the flag set, and the store holds another coin's series beside it.
C6_Witness ==
    /\ last[1] = "PriceDone"
    /\ last[3] = <<"json", "noAmount">>
    /\ priceData[last[2]].error = TRUE
    /\ priceData[last[2]].data[Len(priceData[last[2]].data)] = Null
    /\ \E k \in DOMAIN priceData : k # last[2]

\* Ascending (non-decreasing) in the first tuple element.
IsSortedByTime(cs) == \A i \in 1..(Len(cs) - 1) : cs[i][1] <= cs[i + 1][1]

\* The same elements, each as many times.
IsPermutation(a, b) ==
    /\ Len(a) = Len(b)
    /\ \A i \in 1..Len(a) :
          Cardinality({ j \in 1..Len(a) : a[j] = a[i] })
            = Cardinality({ j \in 1..Len(b) : b[j] = a[i] })

\* A candle response that is a non-empty array.
IsCandles(resp) == resp # Reject /\ resp[2] = "array" /\ resp[3] # <<>>

\* C7: the candles stored for a non-empty candle response are a permutation
\* of the response, ascending by timestamp; so every panel's stored
\* candles are non-decreasing in timestamp in every reachable state.
C7_CandlesSorted ==
    /\ \A id \in DOMAIN panels : IsSortedByTime(panels[id].ohlcData)
    /\ (last[1] = "HistoryDone" /\ IsCandles(last[3])) =>
          /\ IsPermutation(panels[last[2]].ohlcData, last[3][3])
          /\ IsSortedByTime(panels[last[2]].ohlcData)

\* C7's case: the response [[200, ...], [100, ...]] was stored as 100, 200.
C7_Witness ==
    /\ last[1] = "HistoryDone"
    /\ last[3] = <<"json", "array", << Candle(200, 18), Candle(100, 14) >> >>
    /\ panels[last[2]].ohlcData = << Candle(100, 14), Candle(200, 18) >>

\* A suggestion that is the not-found sentinel.
IsSentinel(sg) == "notFound" \in DOMAIN sg

\* A search response that carries at least one coin.
HasCoins(resp) == resp # Reject /\ resp[2] = "coins" /\ resp[3] # <<>>

\* C8: a search response with no coin, and a failed search, set the
\* suggestion list to the one not-found sentinel; a response with k >= 1
\* coins sets it to the first min(k, 5) results in response order; so the
\* list is always empty, or the one sentinel, or 1 to 5 coins.
C8_SuggestionShape ==
    /\ \/ suggestions = <<>>
       \/ suggestions = << NotFound >>
       \/ /\ Len(suggestions) \in 1..5
          /\ \A i \in 1..Len(suggestions) : ~IsSentinel(suggestions[i])
    /\ (last[1] = "SearchDone" /\ ~HasCoins(last[3])) => suggestions = << NotFound >>
    /\ (last[1] = "SearchDone" /\ HasCoins(last[3])) =>
          LET hits == last[3][3]
              k    == Len(hits)
          IN  /\ Len(suggestions) = IF k < 5 THEN k ELSE 5
              /\ \A i \in 1..Len(suggestions) :
                    /\ ~IsSentinel(suggestions[i])
                    /\ suggestions[i].id = hits[i].id
                    /\ suggestions[i].name = hits[i].name
                    /\ suggestions[i].ticker = toUpperCase(hits[i].symbol)

\* C8's case: a response with seven coins left its first five.
C8_Witness ==
    /\ last[1] = "SearchDone"
    /\ HasCoins(last[3])
    /\ Len(last[3][3]) = 7
    /\ Len(suggestions) = 5
    /\ suggestions[1].id = "bitcoin"
    /\ suggestions[5].ticker = "ADA"

\* C9: a step that changes the search query to the empty string empties
\* the suggestion list and issues no search request; a step that changes
\* it to a non-empty value issues exactly one request, for that value.
C9_QueryChange ==
    [][searchQuery' # searchQuery =>
         IF searchQuery' = ""
            THEN suggestions' = <<>> /\ searchReqs' = searchReqs
            ELSE \E r \in searchReqs' :
                    /\ r \notin searchReqs
                    /\ r.query = searchQuery'
                    /\ searchReqs' = searchReqs \cup {r}]_vars

\* C9's case: the query was cleared by typing after a response to the
\* earlier query had filled the suggestion list.
C9_Witness ==
    /\ last[1] = "ChangeQuery"
    /\ searchQuery = ""
    /\ suggestions = <<>>
    /\ searchReqs = {}
    /\ coins = defaultCoins

\* A new panel is loading; a panel that is not loading stays so.
PanelsStep ==
    /\ \A id \in DOMAIN panels' \ DOMAIN panels : panels'[id].ohlcLoading
    /\ \A pid \in DOMAIN panels :
          /\ pid \in DOMAIN panels'
          /\ ~panels[pid].ohlcLoading => ~panels'[pid].ohlcLoading

\* C10: a panel starts as loading; once its candle request completes it is
\* not loading: available with the sorted candles for a non-empty array,
\* unavailable for an empty array, a non-array or a failure; it never goes
\* back to loading, and is never loading while marked unavailable.
C10_PanelState ==
    /\ [](\A i \in 1..Len(coins) :
            LET p == panels[coins[i].id]
            IN  /\ p.ohlcLoading <=> coins[i] \in histReqs
                /\ ~(p.ohlcLoading /\ ~p.ohlcAvailable))
    /\ [](last[1] = "HistoryDone" =>
            LET p == panels[last[2]]
            IN  /\ ~p.ohlcLoading
                /\ IF IsCandles(last[3])
                      THEN /\ p.ohlcAvailable
                           /\ IsPermutation(p.ohlcData, last[3][3])
                           /\ IsSortedByTime(p.ohlcData)
                      ELSE ~p.ohlcAvailable)
    /\ [][PanelsStep]_vars

\* C10's cases: one panel resolved as available with candles, another as
\* unavailable, the third still loading.
C10_Witness ==
    /\ \E id \in DOMAIN panels :
          /\ ~panels[id].ohlcLoading
          /\ panels[id].ohlcAvailable
          /\ panels[id].ohlcData # <<>>
    /\ \E id \in DOMAIN panels : ~panels[id].ohlcLoading /\ ~panels[id].ohlcAvailable
    /\ \E id \in DOMAIN panels : panels[id].ohlcLoading
    /\ last[1] = "HistoryDone"
    /\ last[3] = <<"json", "array", <<>> >>

\* ------------------------------------------------------------------- C11
\* a is a prefix of b.
IsPrefix(a, b) == Len(a) <= Len(b) /\ SubSeq(b, 1, Len(a)) = a

\* C11: the Tracked Coin Set only grows.  Across every step the sequence
\* before is a prefix of the sequence after, so no member is removed or
\* replaced and the order is kept; the default coins stay its first three
\* members, in their order.
C11_CoinsOnlyGrow ==
    /\ [][IsPrefix(coins, coins')]_vars
    /\ [](IsPrefix(defaultCoins, coins))

\* addCoin has appended a fourth coin behind the three default coins.
C11_Witness ==
    /\ last[1] = "AddCoin"
    /\ last[3] = FALSE
    /\ Len(coins) = 4
    /\ SubSeq(coins, 1, 3) = defaultCoins
    /\ coins[4].id = last[2]

\* ------------------------------------------------------------------- C12
\* The step is a firing of the polling timer.
TickStep == last'[1] = "Tick" /\ clock' # clock

\* The price requests the step issues.
NewPriceReqs == priceReqs' \ priceReqs

\* C12: each firing of the polling timer issues exactly one price request
\* for every coin in the Tracked Coin Set at the time of the tick, coins
\* added since mount included, and none for any other coin; no request in
\* flight is dropped by it.
C12_TickPollsTrackedCoins ==
    [][TickStep =>
        /\ priceReqs \subseteq priceReqs'
        /\ Cardinality(NewPriceReqs) = Len(coins)
        /\ \A i \in 1..Len(coins) :
              Cardinality({ r \in NewPriceReqs : r.coin = coins[i] }) = 1
        /\ \A r \in NewPriceReqs :
              /\ \E i \in 1..Len(coins) : r.coin = coins[i]
              /\ r.issued = clock']_vars

\* A tick after addCoin appended a fourth coin: its request for that coin
\* is in flight.
C12_Witness ==
    /\ last[1] = "Tick"
    /\ Len(coins) = 4
    /\ \A i \in 1..4 : [coin |-> coins[i], issued |-> clock] \in priceReqs

\* ------------------------------------------------- polling under fairness
\* The candle response the settled panels of InitLive received.
SettledHistory == <<"json", "array", << Candle(200, 18), Candle(100, 14) >> >>

\* The dashboard within its first polling period, with the timer left to
\* fire on its own schedule: a firing is not counted against the events of
\* the behaviour, only against the length of the run in polling periods.
\* The mount fetches of bitcoin and ethereum (price and candles) have
\* settled, those of solana are in flight.
InitLive ==
    /\ coins = defaultCoins
    /\ activeCoin = defaultCoins[1].id
    /\ searchQuery = ""
    /\ suggestions = <<>>
    /\ timers = { SetInterval(defaultCoins, 0) }
    /\ mounted = TRUE
    /\ searchReqs = {}
    /\ histReqs = { defaultCoins[3] }
    /\ panels = [id \in { defaultCoins[i].id : i \in 1..3 } |->
                    IF id = defaultCoins[3].id
                       THEN NewPanel
                       ELSE historySettled(NewPanel, SettledHistory)]
    /\ last = <<"Mount">>
    /\ steps = MaxLiveSteps
    /\ clock = 0
    /\ priceData = Polled(defaultCoins, << 1, 1, 0 >>)
    /\ priceReqs = Pending(defaultCoins[3], 0, 0)

TickLive ==
    /\ clock < MaxClock
    /\ steps' = steps
    /\ \E t \in timers : Fire(t)

NextLive ==
    \/ TickLive
    \/ \E r \in priceReqs, resp \in PriceResponses : PriceDone(r, resp)
    \/ \E c \in histReqs, resp \in HistoryResponses : HistoryDone(c, resp)
    \/ \E q \in Queries \cup {""} : ChangeQuery(q)
    \/ \E r \in searchReqs, resp \in SearchResponses : SearchDone(r, resp)
    \/ \E i \in 1..Len(suggestions) : AddCoin(suggestions[i])
    \/ \E i \in 1..Len(coins) : SelectCoin(i)
    \/ Unmount

\* setInterval fires its callback every updateInterval for as long as the
\* timer is armed: a firing that stays possible happens.
SpecLive == InitLive /\ [][NextLive]_vars /\ WF_vars(TickLive)

\* ------------------------------------------------------------------- C13
\* The last event was a fetch that failed: a rejected price, history or
\* search fetch, or a price response without an amount.
FetchFailed ==
    /\ last[1] \in { "PriceDone", "HistoryDone", "SearchDone" }
    /\ \/ last[3] = Reject
       \/ last[1] = "PriceDone" /\ last[3][2] = "noAmount"

\* Every tracked coin has a price request issued by a tick later than k.
PolledAfter(k) ==
    \A i \in 1..Len(coins) :
        \E r \in priceReqs : r.coin = coins[i] /\ r.issued > k

SelectStep == last'[1] = "SelectCoin" /\ steps' # steps

\* The candle requests the step issues.
NewHistReqs == histReqs' \ histReqs

\* The coin displayed after the step.
DisplayedCoin == { coins'[i] : i \in { j \in 1..Len(coins') : coins'[j].id = activeCoin' } }

\* C14 as stated: each event that makes a coin the displayed coin, a click
\* on its button or addCoin, issues exactly one history request for that
\* coin, and a polling tick issues none.
C14_Original ==
    [][/\ (SelectStep \/ AddCoinStep) => NewHistReqs = DisplayedCoin
       /\ TickStep => NewHistReqs = {}]_vars

\* C14, amended: a history request is issued exactly when a coin's panel
\* mounts.  A step issues one for each coin it adds to the Tracked Coin Set
\* and for no other coin: addCoin of a coin not tracked before issues
\* exactly one, for that coin; a click on a coin button, addCoin of a coin
\* already tracked and a polling tick issue none.
C14_HistoryAtPanelMount ==
    [][/\ NewHistReqs = { coins'[i] : i \in (Len(coins) + 1)..Len(coins') }
       /\ (AddCoinStep /\ ~last'[3]) => NewHistReqs = DisplayedCoin
       /\ (AddCoinStep /\ last'[3]) => NewHistReqs = {}
       /\ SelectStep => NewHistReqs = {}
       /\ TickStep => NewHistReqs = {}]_vars

\* A click on the button of ethereum after its candle fetch settled: the
\* coin is displayed and no candle fetch for it is in flight.
C14_Witness ==
    /\ last[1] = "SelectCoin"
    /\ activeCoin = "ethereum"
    /\ ~panels["ethereum"].ohlcLoading
    /\ \A c \in histReqs : c.id # "ethereum"

\* ------------------------------------------------------------------- C15
\* C15: selecting a tracked coin by its button changes only the Active
\* Selection, which becomes the id of a tracked coin.  The Tracked Coin Set,
\* every series and error flag, the search query, the suggestion list and
\* the armed polling timer are unchanged, and so are the fetches in flight
\* and the panels.
C15_SelectChangesOnlyActive ==
    [][SelectStep =>
        /\ HasId(coins, activeCoin')
        /\ UNCHANGED << coins, priceData, searchQuery, suggestions, timers >>
        /\ UNCHANGED << mounted, priceReqs, searchReqs, histReqs, panels, clock >>]_vars

\* A click on the button of solana while the search box holds a query and
\* the suggestion list its results.
C15_Witness ==
    /\ last[1] = "SelectCoin"
    /\ activeCoin = "solana"
    /\ searchQuery # ""
    /\ suggestions # <<>>
    /\ timers # {}

\* ------------------------------------------------------------------- C16
\* C16: at most one polling timer is armed at any time.  A step that
\* changes the Tracked Coin Set cancels the old timer and arms a new one,
\* over the new coins, in that same step.  After the view unmounts no timer
\* is armed and no step issues a price request, while the unmount cancels
\* no fetch in flight: a price fetch that settles after it, with success or
\* with failure, still leaves the set in flight and records its sample.
C16_AtMostOneTimer ==
    /\ [](Cardinality(timers) <= 1)
    /\ [][coins' # coins =>
            /\ Cardinality(timers') = 1
            /\ timers' \cap timers = {}
            /\ \A t \in timers' : t.coins = coins']_vars
    /\ [](~mounted => timers = {})
    /\ [][~mounted => priceReqs' \subseteq priceReqs]_vars
    /\ [][(mounted /\ ~mounted') =>
            UNCHANGED << priceReqs, histReqs, searchReqs >>]_vars
    /\ [][(~mounted /\ PriceDoneStep) =>
            /\ priceReqs' \subseteq priceReqs
            /\ Cardinality(priceReqs') = Cardinality(priceReqs) - 1
            /\ Len(PrevData(priceData', PriceDoneCoin).data) =
                  Len(PrevData(priceData, PriceDoneCoin).data) + 1]_vars

\* A price fetch issued before the unmount settles after it: no timer is
\* armed and the sample is recorded.
C16_Witness ==
    /\ ~mounted
    /\ timers = {}
    /\ last[1] = "PriceDone"
    /\ last[2] \in DOMAIN priceData
    /\ priceReqs # {}

\* ------------------------------------------------------------------- C17
\* The step is the completion of a search fetch.
SearchDoneStep == last'[1] = "SearchDone" /\ searchReqs' # searchReqs

\* C17: search requests are neither cancelled nor sequenced.  A change of
\* the query leaves every search fetch in flight, and a response is applied
\* when it arrives whatever the query is by then: a response to an earlier
\* query q1, delivered when the query is q2, sets the suggestion list to
\* its own results and leaves the query alone.  So the state with the
\* results of q1 shown under the query q2, after the response for q2 was
\* delivered first, is reachable (C17_Witness).
C17_StaleSearchApplied ==
    [][/\ searchQuery' # searchQuery => searchReqs \subseteq searchReqs'
       /\ (SearchDoneStep /\ last'[2] # searchQuery) =>
             /\ searchQuery' = searchQuery
             /\ Cardinality(searchReqs') = Cardinality(searchReqs) - 1
             /\ IF HasCoins(last'[3])
                   THEN /\ Len(suggestions') =
                              IF Len(last'[3][3]) < 5 THEN Len(last'[3][3]) ELSE 5
                        /\ \A i \in 1..Len(suggestions') :
                              suggestions'[i].id = last'[3][3][i].id
                   ELSE suggestions' = << NotFound >>]_vars

\* The query went from "d" to "do" with the fetch for "d" in flight; the
\* response for "do" was delivered first, then the response for
\* "d": the list holds its result, dogecoin, under the query "do".
C17_Witness ==
    /\ searchQuery = "do"
    /\ searchReqs = {}
    /\ last[1] = "SearchDone"
    /\ last[2] = "d"
    /\ last[3] = <<"json", "coins", << hitDoge >> >>
    /\ Len(suggestions) = 1
    /\ suggestions[1].id = "dogecoin"

\* ------------------------------------------------------------------- C18
\* The failure of a response and the value it carries, read off the
\* response.
IsPriceFailure(resp) == resp = Reject \/ resp = <<"json", "noAmount">>

PriceOf(resp) ==
    IF resp = <<"json", "amount", "100">> THEN Num(100)
    ELSE IF resp = <<"json", "amount", "250">> THEN Num(250)
    ELSE Null

\* C18: overlapping price requests for one coin are applied in completion
\* order.  Every completion, whatever its place in the order of issue and
\* whichever requests issued after it have settled before it, makes its own
\* outcome the coin's most recent sample and error flag; so when a request
\* issued earlier completes after one issued later, the current value and
\* the flag are those of the earlier, slow request.
C18_CompletionOrder ==
    [][PriceDoneStep =>
         LET new  == priceData'[PriceDoneCoin]
             resp == last'[3]
         IN  /\ new.data[Len(new.data)] = PriceOf(resp)
             /\ new.error = IsPriceFailure(resp)
             /\ \A r \in priceReqs \ priceReqs' :
                   r.coin.id = PriceDoneCoin /\ r.issued = last'[4]]_vars

\* Solana had the requests of three rounds in flight.  The latest one
\* settled first with a price, then the earliest one failed: the series
\* ends with the price and then the null, and the flag is set.
C18_Witness ==
    /\ last = <<"PriceDone", "solana", Reject, WarmUp - 2>>
    /\ \A r \in priceReqs : r.coin.id = "solana" => r.issued = WarmUp - 1
    /\ LET s == priceData["solana"]
           n == Len(s.data)
       IN  /\ s.error = TRUE
           /\ s.data[n] = Null
           /\ s.data[n - 1] = Num(250)
           /\ n = WarmUp

\* ------------------------------------------------------------------- C19
\* C19: for every coin that has a series, the error flag is true exactly
\* when the last value of the series is null.  So a success after a failure
\* resets the flag and a failure after a success sets it.
C19_FlagIffLastNull ==
    \A id \in DOMAIN priceData :
        LET s == priceData[id]
        IN  /\ Len(s.data) >= 1
            /\ s.error \in BOOLEAN
            /\ s.error <=> (s.data[Len(s.data)] = Null)

\* A success right after a failure for solana: the series ends null, price
\* and the flag is reset, while another coin's series carries the flag.
C19_Witness ==
    /\ last[1] = "PriceDone"
    /\ last[2] = "solana"
    /\ LET s == priceData["solana"]
           n == Len(s.data)
       IN  /\ n = WarmUp
           /\ s.data[n - 1] = Null
           /\ s.data[n] = Num(100)
           /\ s.error = FALSE
    /\ \E id \in DOMAIN priceData : priceData[id].error

\* ------------------------------------------------------------------- C20
\* C20 as stated: in every reachable state in which the search query is
\* empty, the suggestion list is empty.
C20_Original == searchQuery = "" => suggestions = <<>>

\* C20, amended: every step that empties the search query, by typing or by
\* addCoin, and every addCoin leave the suggestion list empty; and while
\* the query stays empty the list becomes non-empty only by the completion
\* of a search fetch issued for an earlier, non-empty query.
C20_EmptyQueryUntilStaleResponse ==
    [][/\ (searchQuery' = "" /\ (searchQuery # "" \/ AddCoinStep))
             => suggestions' = <<>>
       /\ (searchQuery = "" /\ searchQuery' = "" /\ suggestions' # <<>>
             /\ suggestions' # suggestions)
             => SearchDoneStep /\ last'[2] # ""]_vars

\* The query was emptied with a search fetch in flight; its response then
\* filled the suggestion list under the empty query.
C20_Witness ==
    /\ searchQuery = ""
    /\ last[1] = "SearchDone"
    /\ last[2] \in Queries
    /\ HasCoins(last[3])
    /\ Len(suggestions) >= 1
    /\ ~IsSentinel(suggestions[1])

====
